---- MODULE Spec2Model ----
(***************************************************************************)
(* Model of the constraint-inference engines of probset                    *)
(* (src/src/filters/theory.rs, bloom.rs, cuckoo.rs).                       *)
(*                                                                         *)
(* Each engine is a struct of Option<f64> fields that `new` fills from the *)
(* caller's arguments and `infer` resolves in a fixed number of passes.    *)
(* One action models one statement of a pass, so that every intermediate   *)
(* state of the struct is a state of the model.  A returned set can be     *)
(* followed by a second construction that is compared with it (`prev`),    *)
(* and math.rs::powi is modelled the same way, one action per statement.   *)
(*                                                                         *)
(* Numbers.  An f64 is modelled by the real number it stands for, as a     *)
(* record [k, n, d]: k = "fin" is the rational n/d in lowest terms, and    *)
(* k = "inf" / "nan" are the IEEE results of a division by zero.  A false  *)
(* positive rate is kept symbolically (see the engines), so that ln, log2, *)
(* exp and powf are computed exactly.  Where the code rounds a value that  *)
(* is an integer over the reals but was computed through ln/exp, the f64   *)
(* result lies one ulp above or below it on some inputs; `fpu` is the      *)
(* rounding outcome of the run (fixed per run: the same f64 expression on  *)
(* the same operands always gives the same result).                        *)
(***************************************************************************)
EXTENDS Integers, Sequences, FiniteSets, TLC

VARIABLES engine, pc, pass, args, self, fpu, prev, powi

vars == <<engine, pc, pass, args, self, fpu, prev, powi>>

(* ----------------------------- bounds ---------------------------------- *)
MaxElements == 5
MaxStorage == 5
MaxHashes == 2

(* ----------------------------- numbers --------------------------------- *)
None == [k |-> "none", n |-> 0, d |-> 1]
NaN == [k |-> "nan", n |-> 0, d |-> 1]
Inf == [k |-> "inf", n |-> 0, d |-> 1]

IsSome(o) == o.k # "none"
IsNone(o) == o.k = "none"
IsFin(v) == v.k = "fin"

RECURSIVE Gcd(_, _)
Gcd(a, b) == IF b = 0 THEN a ELSE Gcd(b, a % b)

Abs(a) == IF a < 0 THEN -a ELSE a

\* the rational n/d (d > 0) in lowest terms
Rat(n, d) ==
    LET g == Gcd(Abs(n), d)
    IN  IF n = 0 THEN [k |-> "fin", n |-> 0, d |-> 1]
        ELSE [k |-> "fin", n |-> n \div g, d |-> d \div g]

Num(n) == Rat(n, 1)

\* floor and ceiling of the rational n/d, d > 0
FloorDiv(n, d) == n \div d
CeilDiv(n, d) == -((-n) \div d)

\* f64 multiplication of two non-negative values
Mul(a, b) ==
    IF a.k = "nan" \/ b.k = "nan" THEN NaN
    ELSE IF a.k = "inf" THEN (IF b.k = "fin" /\ b.n = 0 THEN NaN ELSE Inf)
    ELSE IF b.k = "inf" THEN (IF a.n = 0 THEN NaN ELSE Inf)
    ELSE Rat(a.n * b.n, a.d * b.d)

\* f64 division of two non-negative values: x/0 is inf, 0/0 is NaN
Div(a, b) ==
    IF a.k = "nan" \/ b.k = "nan" THEN NaN
    ELSE IF a.k = "inf" THEN (IF b.k = "inf" THEN NaN ELSE Inf)
    ELSE IF b.k = "inf" THEN Num(0)
    ELSE IF b.n = 0 THEN (IF a.n = 0 THEN NaN ELSE Inf)
    ELSE Rat(a.n * b.d, a.d * b.n)

\* f64::floor and f64::ceil: inf and NaN pass through
Floor(a) == IF IsFin(a) THEN Num(FloorDiv(a.n, a.d)) ELSE a
Ceil(a) == IF IsFin(a) THEN Num(CeilDiv(a.n, a.d)) ELSE a

\* IEEE comparison a <= b of non-negative values: false when either is NaN
Leq(a, b) ==
    IF a.k = "nan" \/ b.k = "nan" THEN FALSE
    ELSE IF b.k = "inf" THEN TRUE
    ELSE IF a.k = "inf" THEN FALSE
    ELSE a.n * b.d <= b.n * a.d

\* `v as u64` on an f64 (Rust's saturating cast): truncates, NaN gives 0,
\* +inf saturates (kept as "inf": u64::MAX is above every bound here)
AsU64(v) ==
    IF v.k = "nan" THEN Num(0)
    ELSE IF v.k = "inf" THEN Inf
    ELSE Num(FloorDiv(v.n, v.d))

\* Option::map(|v| v as u64)
MapAsU64(o) == IF IsNone(o) THEN None ELSE AsU64(o)

\* Option<u64>::map(|v| v as f64): exact for the integers in range
MapAsF64(o) == o

(* ------------------------ constructor arguments ------------------------ *)
\* `prev` holds the arguments and the result of an earlier construction whose
\* result the caller compares with, or feeds into, the current one
NoPrev ==
    [mode |-> "first",
     args |-> [error |-> None, elements |-> None, storage |-> None],
     self |-> [error |-> None, elements |-> None, storage |-> None]]

\* a false positive rate 2^-(n/d), n/d > 0, given by its exponent
Pow2(n, d) == LET r == Rat(n, d) IN [k |-> "pow2", n |-> r.n, d |-> r.d]

OptElements == {None} \cup {Num(i) : i \in 0..MaxElements}
OptStorage == {None} \cup {Num(i) : i \in 0..MaxStorage}
\* rates 2^-1/2, 2^-1, 2^-2
OptErrorPow2 == {None, Pow2(1, 2), Pow2(1, 1), Pow2(2, 1)}

Constraints(error, elements, storage) ==
    (IF IsSome(error) THEN 1 ELSE 0) + (IF IsSome(elements) THEN 1 ELSE 0)
        + (IF IsSome(storage) THEN 1 ELSE 0)

(* ------------------------------- Theory -------------------------------- *)
\* f64::log2(1.0 / error) for error = 2^-x, 0 or NaN
Log2Inv(error) ==
    IF error.k = "pow2" THEN Rat(error.n, error.d)
    ELSE IF error.k = "zero" THEN Inf
    ELSE NaN

\* f64::powf(2.0, -bits)
Pow2Neg(bits) ==
    IF bits.k = "fin" THEN [k |-> "pow2", n |-> bits.n, d |-> bits.d]
    ELSE IF bits.k = "inf" THEN [k |-> "zero", n |-> 0, d |-> 1]
    ELSE NaN

\* theory::Parameters::new(error, elements, storage): lines 30-49
theory_new(error, elements, storage) ==
    /\ args' = [error |-> error, elements |-> elements, storage |-> storage]
    /\ self' = [error |-> error,
                elements |-> MapAsF64(elements),
                storage |-> MapAsF64(storage),
                bits |-> None]
    /\ pc' = IF Constraints(error, elements, storage) = 2
             THEN "theory_bits_error" ELSE "done"
    /\ engine' = "theory"
    /\ pass' = 0
    /\ UNCHANGED fpu

TheoryNew ==
    /\ pc = "start"
    /\ \E error \in OptErrorPow2, elements \in OptElements, storage \in OptStorage :
          theory_new(error, elements, storage)
    /\ UNCHANGED <<prev, powi>>

\* lines 53-55
theory_bits_from_error(p) ==
    [p EXCEPT !.bits =
        IF IsSome(p.bits) THEN p.bits
        ELSE IF IsSome(p.error) THEN Log2Inv(p.error)
        ELSE None]

TheoryBitsFromError ==
    /\ pc = "theory_bits_error"
    /\ self' = theory_bits_from_error(self)
    /\ pc' = "theory_bits_ratio"
    /\ UNCHANGED <<engine, pass, args, fpu, prev, powi>>

\* lines 57-60
theory_bits_from_ratio(p) ==
    [p EXCEPT !.bits =
        IF IsSome(p.bits) THEN p.bits
        ELSE IF IsSome(p.storage) /\ IsSome(p.elements)
             THEN Div(p.storage, p.elements)
        ELSE None]

TheoryBitsFromRatio ==
    /\ pc = "theory_bits_ratio"
    /\ self' = theory_bits_from_ratio(self)
    /\ pc' = "theory_storage"
    /\ UNCHANGED <<engine, pass, args, fpu, prev, powi>>

\* lines 62-65
theory_storage(p) ==
    [p EXCEPT !.storage =
        IF IsNone(p.bits) \/ IsSome(p.storage) THEN p.storage
        ELSE IF IsSome(p.elements) THEN Mul(p.bits, p.elements)
        ELSE None]

TheoryStorage ==
    /\ pc = "theory_storage"
    /\ self' = theory_storage(self)
    /\ pc' = "theory_elements"
    /\ UNCHANGED <<engine, pass, args, fpu, prev, powi>>

\* lines 67-69
theory_elements(p) ==
    [p EXCEPT !.elements =
        IF IsNone(p.bits) \/ IsSome(p.elements) THEN p.elements
        ELSE IF IsSome(p.storage) THEN Div(p.storage, p.bits)
        ELSE None]

TheoryElements ==
    /\ pc = "theory_elements"
    /\ self' = theory_elements(self)
    /\ pc' = "theory_error"
    /\ UNCHANGED <<engine, pass, args, fpu, prev, powi>>

TheoryPasses == 2

\* line 71, and the end of the loop body
theory_error(p) ==
    [p EXCEPT !.error =
        IF IsNone(p.bits) \/ IsSome(p.error) THEN p.error
        ELSE Pow2Neg(p.bits)]

TheoryError ==
    /\ pc = "theory_error"
    /\ self' = theory_error(self)
    /\ pass' = pass + 1
    /\ pc' = IF pass + 1 < TheoryPasses THEN "theory_bits_error" ELSE "done"
    /\ UNCHANGED <<engine, args, fpu, prev, powi>>

(* -------------------------------- Bloom -------------------------------- *)
\* f64::ln(2.0) = 0.693147..., as the rational Ln2Num / Ln2Den below it; the
\* products it is used in are irrational, and no integer lies between the
\* value computed with it and the exact one for the operands in range
Ln2Num == 693147
Ln2Den == 1000000

\* floor(a * ln2 / b) for integers a >= 0, b > 0
FloorLn2(a, b) == (a * Ln2Num) \div (b * Ln2Den)

\* ceil(a / (b * ln2)) for integers a >= 0, b > 0
CeilInvLn2(a, b) == CeilDiv(a * Ln2Den, b * Ln2Num)

\* f64::round(a * ln2 / b) for integers a >= 0, b > 0
RoundLn2(a, b) == (2 * a * Ln2Num + b * Ln2Den) \div (2 * b * Ln2Den)

\* A Bloom false positive rate is one of
\*   pow2 n/d : 2^-(n/d), a rate the caller supplied, ln = -(n/d) ln2
\*   exp n/d  : exp(-(n/d) ln2^2), derived at line 73 from storage/elements = n/d
\*   zero     : exp(-inf),   nan : exp(NaN)
Zero == [k |-> "zero", n |-> 0, d |-> 1]
ExpRate(r) == [k |-> "exp", n |-> r.n, d |-> r.d]

\* f64::floor(-(storage * c / f64::ln(error))), c = ln2 * ln2       (line 52)
BloomCapacity(storage, error, f) ==
    IF storage.k # "fin" \/ error.k = "nan" THEN NaN
    ELSE IF error.k = "zero" THEN Num(0)
    ELSE IF error.k = "pow2"
         THEN Num(FloorLn2(storage.n * error.d, error.n))
    ELSE \* exp: storage * c / (r * c), an exact rational over the reals
         IF error.n = 0 THEN (IF storage.n = 0 THEN NaN ELSE Inf)
         ELSE LET q == Rat(storage.n * error.d, error.n)
              IN  IF q.d = 1 /\ q.n > 0 /\ f.floor_down
                  THEN Num(q.n - 1)   \* the f64 quotient fell below the integer
                  ELSE Floor(q)

\* line 60 with f64::floor in place of f64::ceil
BloomRequirementFloor(elements, error, f) ==
    IF elements.k # "fin" \/ error.k = "nan" THEN NaN
    ELSE IF error.k = "zero" THEN (IF elements.n = 0 THEN NaN ELSE Inf)
    ELSE IF error.k = "pow2"
         THEN Num(FloorDiv(elements.n * error.n * Ln2Den, error.d * Ln2Num))
    ELSE Floor(Rat(elements.n * error.n, error.d))

\* f64::ceil(-elements * f64::ln(error) / c)                         (line 60)
BloomRequirement(elements, error, f) ==
    IF elements.k # "fin" \/ error.k = "nan" THEN NaN
    ELSE IF error.k = "zero" THEN (IF elements.n = 0 THEN NaN ELSE Inf)
    ELSE IF error.k = "pow2"
         THEN Num(CeilInvLn2(elements.n * error.n, error.d))
    ELSE \* exp: elements * r * c / c, an exact rational over the reals
         LET q == Rat(elements.n * error.n, error.d)
         IN  IF q.d = 1 /\ q.n > 0 /\ f.ceil_up
             THEN Num(q.n + 1)        \* the f64 quotient rose above the integer
             ELSE Ceil(q)

\* f64::round(storage / elements * f64::ln(2.0))                     (line 67)
BloomHashes(storage, elements) ==
    LET q == Div(storage, elements)
    IN  IF q.k # "fin" THEN q ELSE Num(RoundLn2(q.n, q.d))

\* (-(storage * c) / elements).exp()                                 (line 73)
BloomError(storage, elements) ==
    LET q == Div(storage, elements)
    IN  IF q.k = "nan" THEN NaN
        ELSE IF q.k = "inf" THEN Zero
        ELSE ExpRate(q)

OptHashes == {None} \cup {Num(i) : i \in 1..MaxHashes}

\* bloom::Parameters::new(error, elements, storage, hashes): lines 31-45
bloom_new(error, elements, storage, hashes) ==
    /\ args' = [error |-> error, elements |-> elements, storage |-> storage,
                hashes |-> hashes]
    /\ self' = [error |-> error,
                elements |-> MapAsF64(elements),
                storage |-> MapAsF64(storage),
                hashes |-> MapAsF64(hashes)]
    /\ fpu' \in [ceil_up : BOOLEAN, floor_down : BOOLEAN]
    /\ engine' = "bloom"
    /\ pass' = 0
    /\ pc' = "bloom_elements"

BloomNew ==
    /\ pc = "start"
    /\ \E error \in OptErrorPow2, elements \in OptElements, storage \in OptStorage,
          hashes \in OptHashes :
          bloom_new(error, elements, storage, hashes)
    /\ UNCHANGED <<prev, powi>>

\* lines 49-54
bloom_elements(p, f) ==
    IF IsSome(p.storage) /\ IsSome(p.error)
    THEN [p EXCEPT !.elements = BloomCapacity(p.storage, p.error, f)]
    ELSE p

BloomElements ==
    /\ pc = "bloom_elements"
    /\ self' = bloom_elements(self, fpu)
    /\ pc' = "bloom_storage"
    /\ UNCHANGED <<engine, pass, args, fpu, prev, powi>>

\* lines 56-62 with is_some() in place of is_none() at line 58
BloomStorageIsSome ==
    /\ pc = "bloom_storage"
    /\ self' = IF IsSome(self.elements) /\ IsSome(self.error) /\ IsSome(self.storage)
               THEN [self EXCEPT !.storage = BloomRequirement(self.elements, self.error, fpu)]
               ELSE self
    /\ pc' = "bloom_hashes"
    /\ UNCHANGED <<engine, pass, args, fpu, prev, powi>>

\* lines 56-62
bloom_storage(p, f) ==
    IF IsSome(p.elements) /\ IsSome(p.error) /\ IsNone(p.storage)
    THEN [p EXCEPT !.storage = BloomRequirement(p.elements, p.error, f)]
    ELSE p

BloomStorage ==
    /\ pc = "bloom_storage"
    /\ self' = bloom_storage(self, fpu)
    /\ pc' = "bloom_hashes"
    /\ UNCHANGED <<engine, pass, args, fpu, prev, powi>>

\* lines 64-68
bloom_hashes(p, f) ==
    IF IsSome(p.elements) /\ IsSome(p.storage) /\ IsNone(p.hashes)
    THEN [p EXCEPT !.error = None,
                      !.hashes = BloomHashes(p.storage, p.elements)]
    ELSE p

BloomHashesStep ==
    /\ pc = "bloom_hashes"
    /\ self' = bloom_hashes(self, fpu)
    /\ pc' = "bloom_error"
    /\ UNCHANGED <<engine, pass, args, fpu, prev, powi>>

BloomPasses == 4

\* lines 70-74, and the end of the loop body
bloom_error(p, f) ==
    IF IsSome(p.elements) /\ IsSome(p.storage) /\ IsNone(p.error)
    THEN [p EXCEPT !.storage = None,
                      !.error = BloomError(p.storage, p.elements)]
    ELSE p

\* lines 70-74 in a loop whose pass counter is never advanced
BloomErrorStepNoCount ==
    /\ pc = "bloom_error"
    /\ self' = bloom_error(self, fpu)
    /\ pass' = pass
    /\ pc' = IF pass + 1 < BloomPasses THEN "bloom_elements" ELSE "done"
    /\ UNCHANGED <<engine, args, fpu, prev, powi>>

\* the loop of line 48 leaving after two passes
BloomErrorStepTwoPasses ==
    /\ pc = "bloom_error"
    /\ self' = bloom_error(self, fpu)
    /\ pass' = pass + 1
    /\ pc' = IF pass + 1 < 2 THEN "bloom_elements" ELSE "done"
    /\ UNCHANGED <<engine, args, fpu, prev, powi>>

BloomErrorStep ==
    /\ pc = "bloom_error"
    /\ self' = bloom_error(self, fpu)
    /\ pass' = pass + 1
    /\ pc' = IF pass + 1 < BloomPasses THEN "bloom_elements" ELSE "done"
    /\ UNCHANGED <<engine, args, fpu, prev, powi>>

(* -------------------------------- Cuckoo ------------------------------- *)
MaxSlots == 2
MaxCuckooHashes == 2

RECURSIVE Pow(_, _)
Pow(b, e) == IF e = 0 THEN 1 ELSE b * Pow(b, e - 1)

RECURSIVE Factorial(_)
Factorial(i) == IF i <= 1 THEN 1 ELSE i * Factorial(i - 1)

\* a / b <= 2^f for integers a, b > 0 and any integer f
LeqPow2(a, b, f) == IF f >= 0 THEN a <= Pow(2, f) * b ELSE a * Pow(2, -f) <= b

\* f64::ceil(f64::log2(a / b)) for integers a, b > 0: the least f with a/b <= 2^f
RECURSIVE CeilLog2From(_, _, _)
CeilLog2From(a, b, f) == IF LeqPow2(a, b, f) THEN f ELSE CeilLog2From(a, b, f + 1)

RECURSIVE FloorLog2Below(_, _, _)
FloorLog2Below(a, b, f) == IF LeqPow2(a, b, f - 1) THEN FloorLog2Below(a, b, f - 1) ELSE f

CeilLog2(a, b) == IF LeqPow2(a, b, 0) THEN FloorLog2Below(a, b, 0) ELSE CeilLog2From(a, b, 1)

\* A Cuckoo false positive rate is one of
\*   rat n/d : the rational n/d, a rate the caller supplied
\*   fpr f   : 1 - (1 - 2^-f)^(slots*hashes*util), derived at lines 173-175
\*             from the fingerprint f (f = 0 gives the rate 1)
\*   zero    : derived from an infinite fingerprint,   nan : from a NaN one
RatRate(n, d) == LET r == Rat(n, d) IN [k |-> "rat", n |-> r.n, d |-> r.d]
FprRate(f) == [k |-> "fpr", n |-> f, d |-> 1]

\* rates 1/8, 1/4, 1/2, 3/4: exact in f64, as are the utilizations below
OptErrorRat == {None, RatRate(1, 8), RatRate(1, 4), RatRate(1, 2), RatRate(3, 4)}
Utils == {Rat(1, 2), Rat(1, 1)}

\* log2(slots!) / slots, kept as the pair (slots!, slots)            (lines 76-85)
CuckooSave(sorted, slots) ==
    IF sorted /\ Factorial(slots) > 1
    THEN [k |-> "log2", n |-> Factorial(slots), d |-> slots]
    ELSE Num(0)

\* f64::floor((storage * util) / elements)                            (line 149)
FingerprintFromSize(storage, elements, util) ==
    Floor(Div(Mul(storage, util), elements))

\* f64::ceil(f64::log2(util * slots * hashes / error))           (lines 161-163)
FingerprintFromError(error, util, slots, hashes) ==
    IF error.k = "rat"
    THEN LET m == Mul(Mul(util, slots), hashes)
         IN  Num(CeilLog2(m.n * error.d, m.d * error.n))
    ELSE NaN

\* 1 - (1 - 2^-fingerprint)^(slots * hashes * util)              (lines 173-175)
CuckooError(fingerprint) ==
    IF fingerprint.k = "fin" THEN FprRate(fingerprint.n)
    ELSE IF fingerprint.k = "inf" THEN Zero
    ELSE NaN

\* ceil(ceil(elements / util) / slots)                           (lines 184-185)
BucketsFromElements(elements, util, slots) ==
    Ceil(Div(Ceil(Div(elements, util)), slots))

\* floor(floor(storage / fingerprint) / slots)                   (lines 195-196)
BucketsFromStorage(storage, fingerprint, slots) ==
    Floor(Div(Floor(Div(storage, fingerprint)), slots))

\* buckets * slots * fingerprint                                 (lines 206-207)
CuckooStorage(buckets, slots, fingerprint) ==
    Mul(Mul(buckets, slots), fingerprint)

\* floor(buckets * slots * util)                                 (lines 217-218)
CuckooElements(buckets, slots, util) ==
    Floor(Mul(Mul(buckets, slots), util))

\* cuckoo::Parameters::new(error, elements, storage, hashes, slots, util,
\* sorted): lines 59-104
cuckoo_new(error, elements, storage, hashes, slots, util, sorted) ==
    /\ args' = [error |-> error, elements |-> elements, storage |-> storage,
                hashes |-> hashes, slots |-> slots, util |-> util,
                sorted |-> sorted]
    /\ self' = [error |-> error,
                elements |-> MapAsF64(elements),
                storage |-> MapAsF64(storage),
                fingerprint |-> None,
                buckets |-> None,
                hashes |-> Num(hashes),
                slots |-> Num(slots),
                util |-> util,
                save |-> CuckooSave(sorted, slots)]
    /\ pc' = IF Constraints(error, elements, storage) = 2
             THEN "cuckoo_loop" ELSE "done"
    /\ engine' = "cuckoo"
    /\ pass' = 0
    /\ UNCHANGED fpu

CuckooNew ==
    /\ pc = "start"
    /\ \E error \in OptErrorRat, elements \in OptElements, storage \in OptStorage,
          hashes \in 1..MaxCuckooHashes, slots \in 1..MaxSlots, util \in Utils,
          sorted \in BOOLEAN :
          cuckoo_new(error, elements, storage, hashes, slots, util, sorted)
    /\ UNCHANGED <<prev, powi>>

\* lines 126-132 with && in place of ||
incompleteAll(p) ==
    /\ IsNone(p.buckets)
    /\ IsNone(p.error)
    /\ IsNone(p.fingerprint)
    /\ IsNone(p.storage)
    /\ IsNone(p.elements)

\* lines 126-132
incomplete(p) ==
    \/ IsNone(p.buckets)
    \/ IsNone(p.error)
    \/ IsNone(p.fingerprint)
    \/ IsNone(p.storage)
    \/ IsNone(p.elements)

CuckooPasses == 8

\* lines 135-138: the loop head and the early exit
CuckooLoop ==
    /\ pc = "cuckoo_loop"
    /\ pc' = IF pass < CuckooPasses /\ incomplete(self)
             THEN "cuckoo_fingerprint_size" ELSE "done"
    /\ UNCHANGED <<engine, pass, args, self, fpu, prev, powi>>

\* lines 146-151
fingerprint_from_size(p) ==
    IF IsNone(p.fingerprint) /\ IsSome(p.elements) /\ IsSome(p.storage)
    THEN [p EXCEPT !.fingerprint =
             FingerprintFromSize(p.storage, p.elements, p.util)]
    ELSE p

CuckooFingerprintFromSize ==
    /\ pc = "cuckoo_fingerprint_size"
    /\ self' = fingerprint_from_size(self)
    /\ pc' = "cuckoo_fingerprint_error"
    /\ UNCHANGED <<engine, pass, args, fpu, prev, powi>>

\* lines 158-165
fingerprint_from_error(p) ==
    IF IsNone(p.fingerprint) /\ IsSome(p.error)
    THEN [p EXCEPT !.error = None,
                      !.fingerprint = FingerprintFromError(
                          p.error, p.util, p.slots, p.hashes)]
    ELSE p

CuckooFingerprintFromError ==
    /\ pc = "cuckoo_fingerprint_error"
    /\ self' = fingerprint_from_error(self)
    /\ pc' = "cuckoo_error"
    /\ UNCHANGED <<engine, pass, args, fpu, prev, powi>>

\* lines 172-176 with the rule waiting for the bucket count as well
cuckoo_error_after_buckets(p) ==
    IF IsSome(p.fingerprint) /\ IsNone(p.error) /\ IsSome(p.buckets)
    THEN [p EXCEPT !.error = CuckooError(p.fingerprint)]
    ELSE p

\* lines 172-176
cuckoo_error(p) ==
    IF IsSome(p.fingerprint) /\ IsNone(p.error)
    THEN [p EXCEPT !.error = CuckooError(p.fingerprint)]
    ELSE p

CuckooErrorStep ==
    /\ pc = "cuckoo_error"
    /\ self' = cuckoo_error(self)
    /\ pc' = "cuckoo_buckets_elements"
    /\ UNCHANGED <<engine, pass, args, fpu, prev, powi>>

\* lines 182-187
buckets_from_elements(p) ==
    IF IsSome(p.fingerprint) /\ IsNone(p.buckets) /\ IsSome(p.elements)
    THEN [p EXCEPT !.buckets =
             BucketsFromElements(p.elements, p.util, p.slots)]
    ELSE p

CuckooBucketsFromElements ==
    /\ pc = "cuckoo_buckets_elements"
    /\ self' = buckets_from_elements(self)
    /\ pc' = "cuckoo_buckets_storage"
    /\ UNCHANGED <<engine, pass, args, fpu, prev, powi>>

\* lines 193-198
buckets_from_storage(p) ==
    IF IsSome(p.fingerprint) /\ IsNone(p.buckets) /\ IsSome(p.storage)
    THEN [p EXCEPT !.buckets =
             BucketsFromStorage(p.storage, p.fingerprint, p.slots)]
    ELSE p

CuckooBucketsFromStorage ==
    /\ pc = "cuckoo_buckets_storage"
    /\ self' = buckets_from_storage(self)
    /\ pc' = "cuckoo_storage"
    /\ UNCHANGED <<engine, pass, args, fpu, prev, powi>>

\* lines 204-209 with the bits saved by sorted buckets, ceil(log2(slots!)) per
\* bucket, taken off the storage
cuckoo_storage_compressed(p) ==
    IF IsSome(p.fingerprint) /\ IsNone(p.storage) /\ IsSome(p.buckets)
    THEN [p EXCEPT !.storage =
             LET st == CuckooStorage(p.buckets, p.slots, p.fingerprint)
             IN  IF p.save.k = "log2" /\ IsFin(st)
                 THEN Rat(st.n - p.buckets.n * CeilLog2(p.save.n, 1) * st.d, st.d)
                 ELSE st]
    ELSE p

\* lines 204-209
cuckoo_storage(p) ==
    IF IsSome(p.fingerprint) /\ IsNone(p.storage) /\ IsSome(p.buckets)
    THEN [p EXCEPT !.storage =
             CuckooStorage(p.buckets, p.slots, p.fingerprint)]
    ELSE p

CuckooStorageStep ==
    /\ pc = "cuckoo_storage"
    /\ self' = cuckoo_storage(self)
    /\ pc' = "cuckoo_elements"
    /\ UNCHANGED <<engine, pass, args, fpu, prev, powi>>

\* lines 215-220 without the or_else: elements is assigned whenever buckets is known
CuckooElementsStepOverwrite ==
    /\ pc = "cuckoo_elements"
    /\ self' = IF IsSome(self.buckets)
               THEN [self EXCEPT !.elements =
                        CuckooElements(self.buckets, self.slots, self.util)]
               ELSE self
    /\ pass' = pass + 1
    /\ pc' = "cuckoo_loop"
    /\ UNCHANGED <<engine, args, fpu, prev, powi>>

\* lines 215-220, and the end of the loop body
cuckoo_elements(p) ==
    IF IsNone(p.elements) /\ IsSome(p.buckets)
    THEN [p EXCEPT !.elements =
             CuckooElements(p.buckets, p.slots, p.util)]
    ELSE p

CuckooElementsStep ==
    /\ pc = "cuckoo_elements"
    /\ self' = cuckoo_elements(self)
    /\ pass' = pass + 1
    /\ pc' = "cuckoo_loop"
    /\ UNCHANGED <<engine, args, fpu, prev, powi>>

(* -------------------------------- powi --------------------------------- *)
\* math.rs lines 89-100.  The rationals acc and base are powers of the base
\* argument throughout, and are kept as their exponents: acc *= base adds
\* them, base * base doubles one.  `powi` is the activation frame.
MaxExp == 300

\* exp.to_bytes_le(): the length, and byte i, of the little-endian bytes
RECURSIVE NumBytes(_)
NumBytes(exp) == IF exp < 256 THEN 1 ELSE 1 + NumBytes(exp \div 256)

ByteLe(exp, i) == (exp \div Pow(256, i)) % 256

\* the bound of `for bit in 0..7`
PowiBits == 7

\* line 90: the call, and acc = 1
PowiCall ==
    /\ engine = "none" /\ pc = "start"
    /\ \E exp \in 0..MaxExp :
          powi' = [exp |-> exp, acc |-> 0, base |-> 1, byte |-> 0, bit |-> 0]
    /\ engine' = "powi"
    /\ pc' = "powi_byte"
    /\ UNCHANGED <<pass, args, self, fpu, prev>>

\* line 91: the head of the loop over the bytes, and line 99
PowiNextByte ==
    /\ pc = "powi_byte"
    /\ IF powi.byte < NumBytes(powi.exp)
       THEN /\ powi' = [powi EXCEPT !.bit = 0]
            /\ pc' = "powi_bit"
       ELSE /\ pc' = "done"
            /\ UNCHANGED powi
    /\ UNCHANGED <<engine, pass, args, self, fpu, prev>>

\* line 92: the head of the loop over the bits of a byte
PowiNextBit ==
    /\ pc = "powi_bit"
    /\ IF powi.bit < PowiBits
       THEN /\ pc' = "powi_multiply"
            /\ UNCHANGED powi
       ELSE /\ powi' = [powi EXCEPT !.byte = @ + 1]
            /\ pc' = "powi_byte"
    /\ UNCHANGED <<engine, pass, args, self, fpu, prev>>

\* lines 93-95
PowiMultiply ==
    /\ pc = "powi_multiply"
    /\ powi' = IF (ByteLe(powi.exp, powi.byte) \div Pow(2, powi.bit)) % 2 = 1
               THEN [powi EXCEPT !.acc = @ + powi.base]
               ELSE powi
    /\ pc' = "powi_square"
    /\ UNCHANGED <<engine, pass, args, self, fpu, prev>>

\* line 96, and the end of the inner loop body
PowiSquare ==
    /\ pc = "powi_square"
    /\ powi' = [powi EXCEPT !.base = 2 * @, !.bit = @ + 1]
    /\ pc' = "powi_bit"
    /\ UNCHANGED <<engine, pass, args, self, fpu, prev>>

(* ------------------------------ accessors ------------------------------ *)
\* theory.rs lines 12-14
theory_bits_per_element(p) == p.bits

\* bloom.rs lines 24-27, cuckoo.rs lines 34-37
bits_per_element(p) ==
    IF IsSome(p.storage) /\ IsSome(p.elements) THEN Div(p.storage, p.elements) ELSE None

Supplied == Constraints(args.error, args.elements, args.storage)

(* ------------------------- one pass of the rules ----------------------- *)
\* theory.rs lines 53-71: the body of the loop
TheoryPass(p) ==
    theory_error(theory_elements(theory_storage(
        theory_bits_from_ratio(theory_bits_from_error(p)))))

\* bloom.rs lines 49-74: the body of the loop
BloomPass(p, f) ==
    bloom_error(bloom_hashes(bloom_storage(bloom_elements(p, f), f), f), f)

\* cuckoo.rs lines 140-221: the body of the loop after the early exit
CuckooPass(p) ==
    cuckoo_elements(cuckoo_storage(buckets_from_storage(buckets_from_elements(
        cuckoo_error(fingerprint_from_error(fingerprint_from_size(p)))))))
Returned == pc = "done"

(* ------------------------- further constructions ---------------------- *)
\* theory.rs lines 24-26: storage() of a storage derived at line 64 as
\* bits * elements.  Where bits = log2(1/error) is not exact in f64 and the
\* product is an integer over the reals, the f64 product may lie below it
\* (`down`), and the cast then truncates to the integer before.
theory_storage_read(p, down) ==
    IF IsFin(p.storage) /\ p.storage.d = 1 /\ p.storage.n >= 1
          /\ IsFin(p.bits) /\ p.bits.d # 1 /\ down
    THEN Num(p.storage.n - 1)
    ELSE MapAsU64(p.storage)

\* a Theory set built from (error, elements), and a second one built from the
\* storage() of the first and the same elements
TheoryRoundTrip ==
    /\ engine = "theory" /\ pc = "done" /\ prev.mode = "first"
    /\ IsSome(args.error) /\ IsSome(args.elements) /\ IsNone(args.storage)
    /\ args.elements.n > 0
    /\ \E down \in BOOLEAN :
          theory_new(None, MapAsU64(self.elements), theory_storage_read(self, down))
    /\ prev' = [mode |-> "round_trip", args |-> args, self |-> self]
    /\ UNCHANGED powi

\* a fully resolved Bloom set, and a second one built from its elements() and
\* storage() with the same forced hash count and no error
BloomRefeed ==
    /\ engine = "bloom" /\ pc = "done" /\ prev.mode = "first"
    /\ Supplied = 2
    /\ IsSome(self.error) /\ IsSome(self.hashes)
    /\ IsFin(self.elements) /\ IsFin(self.storage)
    /\ bloom_new(None, MapAsU64(self.elements), MapAsU64(self.storage), args.hashes)
    /\ prev' = [mode |-> "refeed", args |-> args, self |-> self]
    /\ UNCHANGED powi

\* a fully resolved Cuckoo set, and a second one built from its elements() and
\* storage() with the same hyperparameters and no error
CuckooRefeed ==
    /\ engine = "cuckoo" /\ pc = "done" /\ prev.mode = "first"
    /\ Supplied = 2
    /\ IsSome(self.error) /\ IsSome(self.fingerprint) /\ IsSome(self.buckets)
    /\ IsFin(self.elements) /\ IsFin(self.storage)
    /\ cuckoo_new(None, MapAsU64(self.elements), MapAsU64(self.storage),
                  args.hashes, args.slots, args.util, args.sorted)
    /\ prev' = [mode |-> "refeed", args |-> args, self |-> self]
    /\ UNCHANGED powi

\* a Cuckoo set, and a second one built from the same arguments with the
\* partial-sort flag flipped
CuckooFlipSorted ==
    /\ engine = "cuckoo" /\ pc = "done" /\ prev.mode = "first"
    /\ cuckoo_new(args.error, args.elements, args.storage,
                  args.hashes, args.slots, args.util, ~args.sorted)
    /\ prev' = [mode |-> "flip", args |-> args, self |-> self]
    /\ UNCHANGED powi

(* ------------------------------- claims -------------------------------- *)
\* C1: with 0, 1 or 3 primaries supplied, every derived field of the returned
\* set is Unknown: bitsPerElement in every engine, hashes in Bloom (unless the
\* caller forced it), fingerprint and buckets in Cuckoo.
C1_GateLeavesDerivedUnknown ==
    (Returned /\ Supplied # 2) =>
        /\ engine = "theory" => IsNone(theory_bits_per_element(self))
        /\ engine = "bloom" =>
              /\ IsNone(bits_per_element(self))
              /\ IsNone(args.hashes) => IsNone(MapAsU64(self.hashes))
        /\ engine = "cuckoo" =>
              /\ IsNone(bits_per_element(self))
              /\ IsNone(MapAsU64(self.fingerprint))
              /\ IsNone(MapAsU64(self.buckets))

C3_BloomResolvesFromAnyTwo ==
    (engine = "bloom" /\ Returned /\ Supplied = 2) =>
        /\ IsSome(self.error)
        /\ IsSome(MapAsU64(self.elements))
        /\ IsSome(MapAsU64(self.storage))
        /\ IsSome(MapAsU64(self.hashes))
        /\ IsSome(bits_per_element(self))

\* a Bloom run from (elements, storage) that derived the hash count, which
\* clears the supplied storage in the first pass
C3_Witness ==
    /\ engine = "bloom" /\ Returned /\ pass = BloomPasses
    /\ IsNone(args.error) /\ IsNone(args.hashes)
    /\ IsSome(args.elements) /\ IsSome(args.storage)
    /\ IsSome(self.storage) /\ IsSome(self.hashes)

\* C4: from any two supplied primaries Cuckoo returns a solved set (error,
\* elements, storage, fingerprint and buckets all known), and the body of a
\* pass is entered only from a state that is not solved.
Solved(p) ==
    /\ IsSome(p.error) /\ IsSome(p.elements) /\ IsSome(p.storage)
    /\ IsSome(p.fingerprint) /\ IsSome(p.buckets)

C4_CuckooReturnsSolved ==
    /\ (engine = "cuckoo" /\ Returned /\ Supplied = 2) => Solved(self)
    /\ (engine = "cuckoo" /\ pc = "cuckoo_fingerprint_size") => ~Solved(self)

\* a Cuckoo run that left the loop through the early exit
C4_Witness ==
    /\ engine = "cuckoo" /\ Returned /\ Supplied = 2
    /\ pass >= 1 /\ pass < CuckooPasses
    /\ Solved(self)

\* C5: with storage and error supplied, the elements Bloom returns is at most
\* the exact capacity storage * ln2^2 / -ln(error) = storage * ln2 / x for
\* error = 2^-x.
C5_BloomCapacityBound ==
    (engine = "bloom" /\ Returned /\ Supplied = 2 /\ IsNone(args.elements)) =>
        Leq(MapAsU64(self.elements),
            Num(FloorLn2(args.storage.n * args.error.d, args.error.n)))

\* C6: with elements and error supplied, the storage Bloom returns is at least
\* the exact requirement -elements * ln(error) / ln2^2 = elements * x / ln2
\* for error = 2^-x, i.e. storage * ln2 >= elements * x.
C6_BloomStorageBound ==
    (engine = "bloom" /\ Returned /\ Supplied = 2 /\ IsNone(args.storage)) =>
        LET st == MapAsU64(self.storage)
        IN  /\ IsFin(st)
            /\ FloorLn2(st.n * args.error.d, 1) >= args.elements.n * args.error.n

\* a Bloom run from (elements, error) that cleared the storage it had derived
\* and derived it again from the recomputed error
C6_Witness ==
    /\ engine = "bloom" /\ Returned /\ Supplied = 2 /\ IsNone(args.storage)
    /\ IsNone(args.hashes) /\ args.elements.n > 0
    /\ self.error.k = "exp"
    /\ IsFin(self.storage) /\ self.storage.n > 0

\* C7: in every resolved Cuckoo set, elements <= buckets * slots * util.
C7_CuckooCapacityBound ==
    (engine = "cuckoo" /\ Returned /\ Supplied = 2) =>
        Leq(self.elements, Mul(Mul(self.buckets, self.slots), self.util))

\* C8: in every resolved Cuckoo set whose storage the caller supplied,
\* buckets * slots * fingerprint does not exceed the supplied storage.
C8_CuckooStorageBudget ==
    (engine = "cuckoo" /\ Returned /\ Supplied = 2 /\ IsSome(args.storage)) =>
        Leq(Mul(Mul(self.buckets, self.slots), self.fingerprint), args.storage)

\* 1 - (1 - 2^-f)^m <= n/d for an integer f >= 0 and a rational m = m.n/m.d > 0,
\* i.e. (2^f - 1)^m.n * d^m.d >= (d - n)^m.d * 2^(f * m.n)
FprLeq(f, m, n, d) ==
    Pow(Pow(2, f) - 1, m.n) * Pow(d, m.d) >= Pow(d - n, m.d) * Pow(Pow(2, f), m.n)

\* C9: when error is supplied to Cuckoo, the error of the returned set is
\* never larger than the supplied error.
C9_CuckooErrorBound ==
    (engine = "cuckoo" /\ Returned /\ Supplied = 2 /\ IsSome(args.error)) =>
        /\ self.error.k = "fpr"
        /\ self.error.n >= 0
        /\ FprLeq(self.error.n, Mul(Mul(self.slots, self.hashes), self.util),
                  args.error.n, args.error.d)

\* C10: the fingerprint Cuckoo derives from a supplied error is at least 1.
C10_CuckooFingerprintPositive ==
    (engine = "cuckoo" /\ Supplied = 2 /\ IsSome(args.error) /\ IsSome(self.fingerprint)) =>
        /\ IsFin(self.fingerprint)
        /\ self.fingerprint.n >= 1

\* C13: when 0, 1 or all 3 primaries are supplied, the returned set's error,
\* elements and storage are exactly the supplied ones, in every engine.
C13_EchoOnClosedGate ==
    (Returned /\ engine # "none" /\ Supplied # 2) =>
        /\ self.error = args.error
        /\ MapAsU64(self.elements) = args.elements
        /\ MapAsU64(self.storage) = args.storage

\* C16: the set returned from two supplied primaries is a fixed point of the
\* engine's rules: one more full pass changes no field.
C16_ReturnedIsFixedPoint ==
    (Returned /\ Supplied = 2) =>
        /\ engine = "theory" => TheoryPass(self) = self
        /\ engine = "bloom" => BloomPass(self, fpu) = self
        /\ engine = "cuckoo" => CuckooPass(self) = self

\* a Bloom run whose third pass re-derived the supplied elements to another
\* value, and which is stable after the fourth
C16_Witness ==
    /\ engine = "bloom" /\ Returned /\ Supplied = 2 /\ pass = BloomPasses
    /\ IsNone(args.hashes) /\ IsSome(args.elements)
    /\ self.elements # args.elements
    /\ BloomPass(self, fpu) = self

CuckooRulePcs ==
    {"cuckoo_fingerprint_size", "cuckoo_fingerprint_error", "cuckoo_error",
     "cuckoo_buckets_elements", "cuckoo_buckets_storage", "cuckoo_storage",
     "cuckoo_elements"}

\* C17: from any two supplied primaries Cuckoo has all five fields known at
\* the end of the first pass: the loop head after a pass sees a solved set,
\* the rules run in the first pass only, and the set is returned after it.
C17_CuckooSinglePass ==
    (engine = "cuckoo" /\ Supplied = 2) =>
        /\ (pc = "cuckoo_loop" /\ pass >= 1) => Solved(self)
        /\ pc \in CuckooRulePcs => pass = 0
        /\ Returned => pass = 1

\* a Cuckoo run from (elements, storage) returned by the early exit of pass 2
C17_Witness ==
    /\ engine = "cuckoo" /\ Returned /\ pass = 1
    /\ IsNone(args.error) /\ IsSome(args.elements) /\ IsSome(args.storage)
    /\ Solved(self)
    /\ self.error.k = "fpr"

\* C18: from two supplied primaries and no forced hash count, Bloom returns
\* each supplied elements and storage unchanged.
C18_BloomSuppliedSizesReturned ==
    (engine = "bloom" /\ Returned /\ Supplied = 2 /\ IsNone(args.hashes)) =>
        /\ IsSome(args.elements) => MapAsU64(self.elements) = args.elements
        /\ IsSome(args.storage) => MapAsU64(self.storage) = args.storage

\* C11: a set built from the elements() and storage() of a fully resolved
\* Bloom or Cuckoo set reports the same error, and the same hashes (Bloom) or
\* fingerprint (Cuckoo), as that set.
C11_RefeedReproduces ==
    (Returned /\ prev.mode = "refeed") =>
        /\ self.error = prev.self.error
        /\ engine = "bloom" =>
              MapAsU64(self.hashes) = MapAsU64(prev.self.hashes)
        /\ engine = "cuckoo" =>
              MapAsU64(self.fingerprint) = MapAsU64(prev.self.fingerprint)

\* C12: the Theory set built from the storage() of a set built from
\* (error, elements), and the same elements, has the original error.
C12_TheoryRoundTrip ==
    (Returned /\ prev.mode = "round_trip") => self.error = prev.args.error

\* the pass cap of the engine that is running
PassCap ==
    IF engine = "theory" THEN TheoryPasses
    ELSE IF engine = "bloom" THEN BloomPasses
    ELSE IF engine = "cuckoo" THEN CuckooPasses
    ELSE 0

\* C14: whatever the input, a resolution never counts more passes than its
\* engine's cap (Theory 2, Bloom 4, Cuckoo 8), and every construction that
\* was started returns.
C14_Terminates ==
    /\ [](pass <= PassCap)
    /\ (engine # "none" /\ ~Returned) ~> Returned

\* a Bloom run on non-finite values (elements = 0) that returned after
\* exactly its four passes
C14_Witness ==
    /\ engine = "bloom" /\ Returned /\ pass = BloomPasses
    /\ IsSome(args.elements) /\ args.elements.n = 0
    /\ self.error.k = "nan"

\* C15: two Cuckoo constructions that differ in the sorted flag only return
\* the same error, elements, storage, fingerprint and buckets.
C15_SortedFlagIrrelevant ==
    (Returned /\ prev.mode = "flip") =>
        /\ self.error = prev.self.error
        /\ self.elements = prev.self.elements
        /\ self.storage = prev.self.storage
        /\ self.fingerprint = prev.self.fingerprint
        /\ self.buckets = prev.self.buckets

\* two resolved Cuckoo sets from the same pair whose save constants differ
C15_Witness ==
    /\ Returned /\ prev.mode = "flip" /\ Supplied = 2
    /\ self.save # prev.self.save
    /\ Solved(self) /\ IsNone(args.storage)
    /\ IsFin(self.storage) /\ self.storage.n > 0

\* C19: powi(base, exp) returns base^exp for every exponent.
C19_PowiIsPower ==
    (engine = "powi" /\ Returned) => powi.acc = powi.exp

(* ---------------------------- specification ---------------------------- *)
Init ==
    /\ engine = "none"
    /\ pc = "start"
    /\ pass = 0
    /\ args = [error |-> None, elements |-> None, storage |-> None]
    /\ self = [error |-> None, elements |-> None, storage |-> None]
    /\ fpu = [ceil_up |-> FALSE, floor_down |-> FALSE]
    /\ prev = NoPrev
    /\ powi = [exp |-> 0, acc |-> 0, base |-> 1, byte |-> 0, bit |-> 0]

Next ==
    \/ TheoryNew
    \/ TheoryBitsFromError
    \/ TheoryBitsFromRatio
    \/ TheoryStorage
    \/ TheoryElements
    \/ TheoryError
    \/ BloomNew
    \/ BloomElements
    \/ BloomStorage
    \/ BloomHashesStep
    \/ BloomErrorStep
    \/ CuckooNew
    \/ CuckooLoop
    \/ CuckooFingerprintFromSize
    \/ CuckooFingerprintFromError
    \/ CuckooErrorStep
    \/ CuckooBucketsFromElements
    \/ CuckooBucketsFromStorage
    \/ CuckooStorageStep
    \/ CuckooElementsStep
    \/ TheoryRoundTrip
    \/ BloomRefeed
    \/ CuckooRefeed
    \/ CuckooFlipSorted
    \/ PowiCall
    \/ PowiNextByte
    \/ PowiNextBit
    \/ PowiMultiply
    \/ PowiSquare

Spec == Init /\ [][Next]_vars

\* the steps of one construction
Resolve ==
    \/ TheoryNew
    \/ TheoryBitsFromError
    \/ TheoryBitsFromRatio
    \/ TheoryStorage
    \/ TheoryElements
    \/ TheoryError
    \/ BloomNew
    \/ BloomElements
    \/ BloomStorage
    \/ BloomHashesStep
    \/ BloomErrorStep
    \/ CuckooNew
    \/ CuckooLoop
    \/ CuckooFingerprintFromSize
    \/ CuckooFingerprintFromError
    \/ CuckooErrorStep
    \/ CuckooBucketsFromElements
    \/ CuckooBucketsFromStorage
    \/ CuckooStorageStep
    \/ CuckooElementsStep

\* new() and infer() run to completion once called: no statement of a loop
\* body blocks, so a step that is enabled is eventually taken
FairSpec == Init /\ [][Resolve]_vars /\ WF_vars(Resolve)
====
